---- MODULE Spec2Model ----
(***************************************************************************)
(* A model of api.py: the CPI index (CPIData), the paginated catalog       *)
(* client (GiantbombAPI.get_platforms), the record validator               *)
(* (is_valid_datset) and the pipeline loop of main.                        *)
(*                                                                         *)
(* Python values are tagged records.  A str is modelled by what the code   *)
(* asks of it: whether it is empty, its segments around "-", and whether   *)
(* float() accepts it.  A float is an exact rational: a mean is the pair   *)
(* <<sum, count>>, compared by cross multiplication (rounding is not       *)
(* modelled).  An optional int (None or an int) is the set {} or {v}.      *)
(***************************************************************************)
EXTENDS Integers, Sequences, FiniteSets, TLC

\* ------------------------------------------------------------------ bounds

MaxLines == 4
MaxLoads == 2
MaxTotal == 5
PageSize == 2
MaxLimit == 2
MaxRequests == MaxTotal + 2

\* ---------------------------------------------------------- Python values

NoneVal == {}
Some(v) == {v}
Val(o) == CHOOSE v \in o : TRUE

PyNone == [type |-> "NoneType"]
PyFloatV(v) == [type |-> "float", val |-> v]
PyList(xs) == [type |-> "list", items |-> xs]

\* One segment of a str around "-": an integer literal or some other text.
IntSeg(n) == [isint |-> TRUE, val |-> n]
WordSeg == [isint |-> FALSE, val |-> 0]

PyStr(ne, segs, isf, f) ==
    [type |-> "str", nonempty |-> ne, segs |-> segs, isfloat |-> isf, fval |-> f]

\* "", "2017-01-01", "1.0", "abc"
EmptyStr == PyStr(FALSE, <<WordSeg>>, FALSE, 0)
DateStr(y) == PyStr(TRUE, <<IntSeg(y), IntSeg(1), IntSeg(1)>>, FALSE, 0)
NumStr(c) == PyStr(TRUE, <<WordSeg>>, TRUE, c)
WordStr == PyStr(TRUE, <<WordSeg>>, FALSE, 0)

\* One segment as a str of its own: "2017" is also a float literal.
SegStr(seg) == PyStr(TRUE, <<seg>>, seg.isint, seg.val)

Truthy(v) ==
    CASE v.type = "NoneType" -> FALSE
      [] v.type = "str" -> v.nonempty
      [] v.type = "float" -> v.val # 0
      [] v.type = "list" -> v.items # <<>>

\* s.split("-")
PySplit(s) == PyList([i \in 1..Len(s.segs) |-> SegStr(s.segs[i])])

Ok(v) == [ok |-> TRUE, val |-> v, err |-> "none"]
Raise(e) == [ok |-> FALSE, val |-> 0, err |-> e]

\* int(v): a str that is one integer literal; a list is a TypeError.
PyInt(v) ==
    IF v.type = "str"
    THEN IF Len(v.segs) = 1 /\ v.segs[1].isint
         THEN Ok(v.segs[1].val)
         ELSE Raise("ValueError")
    ELSE Raise("TypeError")

\* float(v) of a str
PyFloat(v) == IF v.isfloat THEN Ok(v.fval) ELSE Raise("ValueError")

\* xs[i] of a list (0-based in the source, i >= 0)
PyIndex(xs, i) == IF i + 1 <= Len(xs) THEN Ok(xs[i + 1]) ELSE Raise("IndexError")

RECURSIVE SumSeq(_)
SumSeq(s) == IF s = <<>> THEN 0 ELSE Head(s) + SumSeq(Tail(s))

\* sum(xs) / len(xs) as the rational <<sum, count>>
Mean(xs) == <<SumSeq(xs), Len(xs)>>
MeanEq(a, b) == a[1] * b[2] = b[1] * a[2]

\* ------------------------------------------------------------ CPI sources

DataYears == {2017, 2018}
CpiValues == {1, 2}

\* A line of the CPI source: whether it starts with "DATE ", and its fields
\* (line.rstrip().split()).
Line(h, data) == [header |-> h, data |-> data]
HeaderLine == Line(TRUE, <<WordStr, WordStr>>)
PreambleLine == Line(FALSE, <<WordStr>>)
DataLine(y, c) == Line(FALSE, <<DateStr(y), NumStr(c)>>)
ShortLine == Line(FALSE, <<DateStr(2017)>>)
BadYearLine == Line(FALSE, <<WordStr, NumStr(1)>>)
BadCpiLine == Line(FALSE, <<DateStr(2017), WordStr>>)
DataLines == {DataLine(y, c) : y \in DataYears, c \in CpiValues}
MalformedLines == {ShortLine, BadYearLine, BadCpiLine}
Lines == {HeaderLine, PreambleLine} \cup DataLines \cup MalformedLines

\* ----------------------------------------------------------------- state

VARIABLES
    year_cpi, first_year, last_year,          \* CPIData's fields
    load_pc, reached_dataset, current_year,   \* load_from_file: position, locals
    year_cpi_buf,                             \* load_from_file's local year_cpi
    observed, pre, loads,                     \* history of the running call
    adjusted                                  \* outcome of get_adjusted_price

cpiVars == <<year_cpi, first_year, last_year, load_pc, reached_dataset,
             current_year, year_cpi_buf, observed, pre, loads, adjusted>>

VARIABLES
    gen_pc,                                   \* get_platforms: position
    incomplete_result, num_total_results,     \* get_platforms: locals
    num_fetched_results, gen_counter,
    items,                                    \* rest of result['results']
    offset,                                   \* params['offset']
    num_requests, received,                   \* history: requests sent, records got
    server_total                              \* the records an honest server holds

genVars == <<gen_pc, incomplete_result, num_total_results, num_fetched_results,
             gen_counter, items, offset, num_requests, received, server_total>>

VARIABLES
    main_pc, platform, platforms, counter,    \* main: position, locals
    limit,                                    \* opts.limit
    error,                                    \* the exception that ended main
    valid_seen,                               \* history: valid records delivered
    vcall                                     \* a call of is_valid_datset

mainVars == <<main_pc, platform, platforms, counter, limit, error, valid_seen>>

vars == <<cpiVars, genVars, mainVars, vcall>>

\* ------------------------------------------------------- CPIData (13-119)

Index == [year_cpi |-> year_cpi, first_year |-> first_year, last_year |-> last_year]

EmptyIndex == [year_cpi |-> <<>>, first_year |-> NoneVal, last_year |-> NoneVal]

\* self.year_cpi[y] = sum(buf) / len(buf)
Commit(yc, y, buf) ==
    [k \in DOMAIN yc \cup {y} |-> IF k = y THEN Mean(buf) ELSE yc[k]]

\* The locals of load_from_file when the call starts.
LoadLocals == [reached_dataset |-> FALSE, current_year |-> NoneVal, buf |-> <<>>]

\* The year and CPI value of a data line, or the exception lines 76-80 raise.
ParseLine(line) ==
    LET d0 == PyIndex(line.data, 0)
        yr == IF d0.ok THEN PyInt(PySplit(d0.val).items[1]) ELSE Raise(d0.err)
        d1 == PyIndex(line.data, 1)
        cp == IF d1.ok THEN PyFloat(d1.val) ELSE Raise(d1.err)
    IN  IF ~yr.ok THEN Raise(yr.err)
        ELSE IF ~cp.ok THEN Raise(cp.err)
        ELSE Ok([year |-> yr.val, cpi |-> cp.val])

\* The year first_year holds after a line of year y (lines 82-83).
FirstYearAfter(fy, y) == IF fy = NoneVal THEN Some(y) ELSE fy

\* The year last_year holds after a line of year y (line 84).
LastYearAfter(ly, y) == Some(y)

\* One turn of the loop of load_from_file on a parsed data line (lines 82-94):
\* s holds the index and the locals.
LoadData(s, year, cpi) ==
    LET newyear == s.current_year # Some(year)
        yc == IF newyear /\ s.current_year # NoneVal
              THEN Commit(s.year_cpi, Val(s.current_year), s.buf)
              ELSE s.year_cpi
        buf == IF newyear THEN <<>> ELSE s.buf
    IN  [s EXCEPT !.first_year = FirstYearAfter(s.first_year, year),
                  !.last_year = LastYearAfter(s.last_year, year),
                  !.year_cpi = yc,
                  !.current_year = Some(year),
                  !.buf = Append(buf, cpi)]

\* Whether the code after the loop commits the last year's buffer (line 97).
FlushNeeded(cy, yc) == cy # NoneVal /\ Val(cy) \notin DOMAIN yc

\* The index after the loop (lines 96-98).
LoadFlush(s) ==
    IF FlushNeeded(s.current_year, s.year_cpi)
    THEN Commit(s.year_cpi, Val(s.current_year), s.buf)
    ELSE s.year_cpi

\* One turn of the loop of load_from_file (lines 67-94): the state after the
\* line, or the exception it raises.
LoadTurn(s, line) ==
    IF ~s.reached_dataset
    THEN Ok([s EXCEPT !.reached_dataset = line.header])
    ELSE LET p == ParseLine(line)
         IN  IF p.ok THEN Ok(LoadData(s, p.val.year, p.val.cpi)) ELSE Raise(p.err)

RECURSIVE LoadLoop(_, _)
LoadLoop(s, ls) ==
    IF ls = <<>> THEN Ok(s)
    ELSE LET r == LoadTurn(s, Head(ls))
         IN  IF r.ok THEN LoadLoop(r.val, Tail(ls)) ELSE r

\* load_from_file(fp) on index ix, as one call (lines 61-98): the index after
\* it, or the exception raised.
load_from_file(ix, ls) ==
    LET r == LoadLoop([year_cpi |-> ix.year_cpi, first_year |-> ix.first_year,
                       last_year |-> ix.last_year,
                       reached_dataset |-> LoadLocals.reached_dataset,
                       current_year |-> LoadLocals.current_year,
                       buf |-> LoadLocals.buf], ls)
    IN  IF r.ok
        THEN Ok([year_cpi |-> LoadFlush(r.val), first_year |-> r.val.first_year,
                 last_year |-> r.val.last_year])
        ELSE r

LoadState ==
    [year_cpi |-> year_cpi, first_year |-> first_year, last_year |-> last_year,
     reached_dataset |-> reached_dataset, current_year |-> current_year,
     buf |-> year_cpi_buf]

\* CPIData() (lines 20-28), no call made yet.
Fresh ==
    /\ year_cpi = EmptyIndex.year_cpi
    /\ first_year = EmptyIndex.first_year
    /\ last_year = EmptyIndex.last_year
    /\ load_pc = "idle"
    /\ reached_dataset = FALSE
    /\ current_year = NoneVal
    /\ year_cpi_buf = <<>>
    /\ observed = <<>>
    /\ pre = EmptyIndex
    /\ loads = 0
    /\ adjusted = [kind |-> "none"]

\* A caller starts load_from_file(fp) (lines 63-66).
LoadStart ==
    /\ load_pc \in {"idle", "done", "failed"}
    /\ loads < MaxLoads
    /\ load_pc' = "loading"
    /\ loads' = loads + 1
    /\ reached_dataset' = LoadLocals.reached_dataset
    /\ current_year' = LoadLocals.current_year
    /\ year_cpi_buf' = LoadLocals.buf
    /\ observed' = <<>>
    /\ pre' = Index
    /\ adjusted' = [kind |-> "none"]
    /\ UNCHANGED <<year_cpi, first_year, last_year>>
    /\ UNCHANGED <<genVars, mainVars, vcall>>

\* A line read by the loop of load_from_file (lines 67-94).
LoadNext ==
    /\ load_pc = "loading"
    /\ Len(observed) < MaxLines
    /\ \E line \in Lines :
         LET r == LoadTurn(LoadState, line)
         IN  IF r.ok
             THEN /\ year_cpi' = r.val.year_cpi
                  /\ first_year' = r.val.first_year
                  /\ last_year' = r.val.last_year
                  /\ reached_dataset' = r.val.reached_dataset
                  /\ current_year' = r.val.current_year
                  /\ year_cpi_buf' = r.val.buf
                  /\ observed' = IF reached_dataset
                                 THEN Append(observed, ParseLine(line).val)
                                 ELSE observed
                  /\ load_pc' = load_pc
             ELSE /\ load_pc' = "failed"
                  /\ UNCHANGED <<year_cpi, first_year, last_year, reached_dataset,
                                 current_year, year_cpi_buf, observed>>
    /\ UNCHANGED <<pre, loads, adjusted>>
    /\ UNCHANGED <<genVars, mainVars, vcall>>

\* The end of the file (lines 96-98).
LoadEOF ==
    /\ load_pc = "loading"
    /\ year_cpi' = LoadFlush(LoadState)
    /\ load_pc' = "done"
    /\ UNCHANGED <<first_year, last_year, reached_dataset, current_year,
                   year_cpi_buf, observed, pre, loads, adjusted>>
    /\ UNCHANGED <<genVars, mainVars, vcall>>

\* The to-year get_adjusted_price uses (lines 106-107).
Horizon == 2018
ToYear(cy) == IF cy = NoneVal \/ Val(cy) > Horizon THEN Horizon ELSE Val(cy)

\* The from-year after clamping (lines 111-114); ix.first_year is an int.
FromYear(ix, year) ==
    IF year < Val(ix.first_year) THEN Val(ix.first_year)
    ELSE IF year > Val(ix.last_year) THEN Val(ix.last_year)
    ELSE year

\* get_adjusted_price(price, year, current_year) on index ix (lines 100-119):
\* the rational price / year_cpi * current_cpi, or the exception raised.
get_adjusted_price(ix, price, year, cy) ==
    IF ix.first_year = NoneVal THEN [kind |-> "TypeError"]
    ELSE LET y == FromYear(ix, year)
             c == ToYear(cy)
         IN  IF y \notin DOMAIN ix.year_cpi \/ c \notin DOMAIN ix.year_cpi
             THEN [kind |-> "KeyError"]
             ELSE LET a == ix.year_cpi[y]
                      b == ix.year_cpi[c]
                  IN  IF a[1] = 0 THEN [kind |-> "ZeroDivisionError"]
                      ELSE [kind |-> "value",
                            val |-> <<price * a[2] * b[1], a[1] * b[2]>>,
                            from |-> y, to |-> c]

QueryYears == 2016..2019
Prices == {1, 3}

\* A caller asks get_adjusted_price of the index between two loads (the model
\* keeps the outcome of one call per index).
Query ==
    /\ load_pc \in {"idle", "done", "failed"}
    /\ adjusted.kind = "none"
    /\ \E price \in Prices, year \in QueryYears,
          cy \in {NoneVal} \cup {Some(y) : y \in QueryYears} :
         adjusted' = get_adjusted_price(Index, price, year, cy)
    /\ UNCHANGED <<year_cpi, first_year, last_year, load_pc, reached_dataset,
                   current_year, year_cpi_buf, observed, pre, loads>>
    /\ UNCHANGED <<genVars, mainVars, vcall>>

\* ------------------------------------------------------ platform records

\* A platform is a dict: a function from the keys it has to their values.
Absent == [type |-> "absent"]
MkPlatform(rd, op, nm, ab) ==
    LET all == [release_date |-> rd, original_price |-> op, name |-> nm,
                abbreviation |-> ab]
    IN  [k \in {f \in DOMAIN all : all[f] # Absent} |-> all[k]]

RequiredFields == {"release_date", "original_price", "name", "abbreviation"}

DateChoices == {Absent, EmptyStr, DateStr(2017)}
PriceChoices == {Absent, PyNone, PyFloatV(0), PyFloatV(3)}
TextChoices == {Absent, EmptyStr, WordStr}
AllPlatforms ==
    {MkPlatform(rd, op, nm, ab) :
        rd \in DateChoices, op \in PriceChoices, nm \in TextChoices, ab \in TextChoices}

\* 'k' not in platform or not platform[k]
Lacks(p, k) == k \notin DOMAIN p \/ ~Truthy(p[k])

\* A warning that formats platform['name'] (lines 201, 204, 210): None when it
\* is logged, KeyError when the record has no such key.
WarnWithName(p) == IF "name" \in DOMAIN p THEN "False" ELSE "KeyError"

\* is_valid_datset(platform) (lines 194-212): "True", "False", or the
\* exception raised.
is_valid_datset(p) ==
    IF Lacks(p, "release_date") THEN WarnWithName(p)
    ELSE IF Lacks(p, "original_price") THEN WarnWithName(p)
    ELSE IF Lacks(p, "name") THEN "False"
    ELSE IF Lacks(p, "abbreviation") THEN WarnWithName(p)
    ELSE "True"

\* A caller asks is_valid_datset of a record.
Validate ==
    /\ vcall.result = "none"
    /\ vcall' = [vcall EXCEPT !.result = is_valid_datset(vcall.platform)]
    /\ UNCHANGED <<cpiVars, genVars, mainVars>>

\* ------------------------------------------- GiantbombAPI.get_platforms

\* Records as the server sends them (prices are JSON strings or null).
PValid == MkPlatform(DateStr(2017), NumStr(3), WordStr, WordStr)
PNoDate == MkPlatform(EmptyStr, NumStr(3), WordStr, WordStr)
PNoName == MkPlatform(DateStr(2017), NumStr(3), Absent, WordStr)
PBare == MkPlatform(Absent, PyNone, Absent, WordStr)
CatalogPlatforms == {PValid, PNoDate, PNoName, PBare}

\* The item as yielded (lines 186-187): float(item['original_price']) when the
\* key is there and its value is truthy.
Coerce(item) ==
    IF "original_price" \in DOMAIN item /\ Truthy(item.original_price)
    THEN LET f == PyFloat(item.original_price)
         IN  IF f.ok
             THEN Ok([item EXCEPT !.original_price = PyFloatV(f.val)])
             ELSE Raise(f.err)
    ELSE Ok(item)

\* A client that asks for the first page again and again.
NextOffsetStale(fetched) == 0

\* params['offset'] of the next request (line 168).
NextOffset(fetched) == fetched

\* The loop's exit test (line 178).
Complete(fetched, total) == fetched >= total

\* A client that fetches on without waiting for its consumer.
AfterYieldEager == "for"

\* Where the generator stands after a yield (line 190): it runs on only when
\* the consumer asks for the next item.
AfterYield == "suspended"

\* The history counts requests up to MaxRequests.
Count(n) == IF n < MaxRequests THEN n + 1 ELSE n

\* for platform in gb_api.get_platforms(...): main asks for the next item
\* (line 339); the generator starts (lines 160-163) or resumes after its
\* yield (line 191).
Pull ==
    /\ main_pc = "loop"
    /\ gen_pc \in {"unstarted", "suspended"}
    /\ main_pc' = "waiting"
    /\ IF gen_pc = "unstarted"
       THEN /\ incomplete_result' = TRUE
            /\ num_total_results' = NoneVal
            /\ num_fetched_results' = 0
            /\ gen_counter' = 0
            /\ gen_pc' = "while"
       ELSE /\ gen_counter' = gen_counter + 1
            /\ gen_pc' = "for"
            /\ UNCHANGED <<incomplete_result, num_total_results, num_fetched_results>>
    /\ UNCHANGED <<items, offset, num_requests, received, server_total>>
    /\ UNCHANGED <<platform, platforms, counter, limit, error, valid_seen>>
    /\ UNCHANGED <<cpiVars, vcall>>

\* while incomplete_result: the next page is requested (lines 165-169).
GenRequest ==
    /\ gen_pc = "while"
    /\ incomplete_result
    /\ offset' = Some(NextOffset(num_fetched_results))
    /\ num_requests' = Count(num_requests)
    /\ gen_pc' = "awaiting"
    /\ UNCHANGED <<incomplete_result, num_total_results, num_fetched_results,
                   gen_counter, items, received, server_total>>
    /\ UNCHANGED <<cpiVars, mainVars, vcall>>

\* while incomplete_result is false: the generator returns and main's for
\* loop ends.
GenReturn ==
    /\ gen_pc = "while"
    /\ ~incomplete_result
    /\ gen_pc' = "ended"
    /\ main_pc' = "done"
    /\ UNCHANGED <<incomplete_result, num_total_results, num_fetched_results,
                   gen_counter, items, offset, num_requests, received, server_total>>
    /\ UNCHANGED <<platform, platforms, counter, limit, error, valid_seen>>
    /\ UNCHANGED <<cpiVars, vcall>>

\* A successful response is taken in (lines 172-179).
Receive(total, results) ==
    LET t == IF num_total_results = NoneVal THEN total ELSE Val(num_total_results)
        f == num_fetched_results + Len(results)
    IN  /\ num_total_results' = Some(t)
        /\ num_fetched_results' = f
        /\ incomplete_result' = IF Complete(f, t) THEN FALSE ELSE incomplete_result
        /\ items' = results
        /\ received' = received + Len(results)
        /\ gen_pc' = "for"
        /\ UNCHANGED <<gen_counter, offset, num_requests, server_total>>
        /\ UNCHANGED <<cpiVars, mainVars, vcall>>

Pages(n) == UNION {[1..k -> CatalogPlatforms] : k \in 0..n}

\* Any server: any total, any page of at most PageSize records, the page
\* count it reports being the number of records sent.
Respond ==
    /\ gen_pc = "awaiting"
    /\ \E total \in 0..MaxTotal, results \in Pages(PageSize) :
         Receive(total, results)

Min(a, b) == IF a <= b THEN a ELSE b

\* A server that holds server_total records and serves those from the offset
\* on, at most PageSize and at least one while some are left.
HonestPageSizes(off) ==
    IF off >= server_total THEN {0} ELSE 1..Min(PageSize, server_total - off)

RespondHonest ==
    /\ gen_pc = "awaiting"
    /\ \E results \in Pages(PageSize) :
         /\ Len(results) \in HonestPageSizes(Val(offset))
         /\ Receive(server_total, results)

\* result.raise_for_status() raises (line 172): the exception leaves the
\* generator and main.
RespondError ==
    /\ gen_pc = "awaiting"
    /\ gen_pc' = "raised"
    /\ main_pc' = "crashed"
    /\ error' = "HTTPError"
    /\ UNCHANGED <<incomplete_result, num_total_results, num_fetched_results,
                   gen_counter, items, offset, num_requests, received, server_total>>
    /\ UNCHANGED <<platform, platforms, counter, limit, valid_seen>>
    /\ UNCHANGED <<cpiVars, vcall>>

\* for item in result['results']: the next item is yielded to main
\* (lines 180-190).
GenYield ==
    /\ gen_pc = "for"
    /\ items # <<>>
    /\ LET c == Coerce(Head(items))
       IN  IF c.ok
           THEN /\ platform' = Some(c.val)
                /\ gen_pc' = AfterYield
                /\ main_pc' = "body"
                /\ error' = error
           ELSE /\ platform' = platform
                /\ gen_pc' = "raised"
                /\ main_pc' = "crashed"
                /\ error' = c.err
    /\ items' = Tail(items)
    /\ UNCHANGED <<incomplete_result, num_total_results, num_fetched_results,
                   gen_counter, offset, num_requests, received, server_total>>
    /\ UNCHANGED <<platforms, counter, limit, valid_seen>>
    /\ UNCHANGED <<cpiVars, vcall>>

\* The page's items are used up: back to the while test.
GenPageDone ==
    /\ gen_pc = "for"
    /\ items = <<>>
    /\ gen_pc' = "while"
    /\ UNCHANGED <<incomplete_result, num_total_results, num_fetched_results,
                   gen_counter, items, offset, num_requests, received, server_total>>
    /\ UNCHANGED <<cpiVars, mainVars, vcall>>

\* ------------------------------------------------------------------ main

\* int(platform['release_date'].split('-'[0])) (line 348): '-'[0] is '-', so
\* int() is given the list split('-') returns.
ReleaseYear(p) == PyInt(PySplit(p.release_date))

\* The record with its derived fields (lines 351-353).
Enriched(p, year, adj) == p @@ [year |-> year, adjusted_price |-> adj]

\* The loop's exit test after an append (line 357).
LimitReached(lim, cnt) == lim # NoneVal /\ cnt + 1 >= Val(lim)

\* The body of main's loop on one record (lines 344-359).
MainBody(p, ps, cnt, lim, ix) ==
    LET v == is_valid_datset(p)
        year == ReleaseYear(p)
        adj == get_adjusted_price(ix, p.original_price.val, year.val, NoneVal)
        stay == [pc |-> "loop", platforms |-> ps, counter |-> cnt, error |-> "none"]
    IN  IF v = "False" THEN stay
        ELSE IF v # "True" THEN [stay EXCEPT !.pc = "crashed", !.error = v]
        ELSE IF ~year.ok THEN [stay EXCEPT !.pc = "crashed", !.error = year.err]
        ELSE IF adj.kind # "value"
             THEN [stay EXCEPT !.pc = "crashed", !.error = adj.kind]
        ELSE IF LimitReached(lim, cnt)
             THEN [stay EXCEPT !.pc = "done",
                               !.platforms = Append(ps, Enriched(p, year.val, adj.val))]
        ELSE [stay EXCEPT !.platforms = Append(ps, Enriched(p, year.val, adj.val)),
                          !.counter = cnt + 1]

MainStep ==
    /\ main_pc = "body"
    /\ LET r == MainBody(Val(platform), platforms, counter, limit, Index)
       IN  /\ main_pc' = r.pc
           /\ platforms' = r.platforms
           /\ counter' = r.counter
           /\ error' = IF r.pc = "crashed" THEN r.error ELSE error
    /\ valid_seen' = IF is_valid_datset(Val(platform)) = "True"
                     THEN valid_seen + 1 ELSE valid_seen
    /\ UNCHANGED <<platform, limit>>
    /\ UNCHANGED <<cpiVars, genVars, vcall>>

\* ----------------------------------------------------- specifications

GenIdle ==
    /\ gen_pc = "unstarted"
    /\ incomplete_result = TRUE
    /\ num_total_results = NoneVal
    /\ num_fetched_results = 0
    /\ gen_counter = 0
    /\ items = <<>>
    /\ offset = NoneVal
    /\ num_requests = 0
    /\ received = 0

MainIdle ==
    /\ platform = NoneVal
    /\ platforms = <<>>
    /\ counter = 0
    /\ error = "none"
    /\ valid_seen = 0

NoCall == [platform |-> <<>>, result |-> "idle"]

PipelineIdle ==
    /\ GenIdle
    /\ MainIdle
    /\ server_total = 0
    /\ main_pc = "idle"
    /\ limit = NoneVal
    /\ vcall = NoCall

\* The CPI files main starts from.
CpiFiles ==
    {<<PreambleLine, HeaderLine, DataLine(2017, 1), DataLine(2017, 2), DataLine(2018, 2)>>,
     <<HeaderLine, DataLine(2017, 1)>>}

\* main after cpi_data.load_from_file(fp) (lines 318-335).
Loaded ==
    /\ \E f \in CpiFiles :
         LET ix == load_from_file(EmptyIndex, f).val
         IN  /\ year_cpi = ix.year_cpi
             /\ first_year = ix.first_year
             /\ last_year = ix.last_year
             /\ pre = EmptyIndex
    /\ load_pc = "done"
    /\ reached_dataset = FALSE
    /\ current_year = NoneVal
    /\ year_cpi_buf = <<>>
    /\ observed = <<>>
    /\ loads = 1
    /\ adjusted = [kind |-> "none"]

Limits == {NoneVal} \cup {Some(n) : n \in 0..MaxLimit}

\* main at the top of its pipeline loop, against any server.
Init ==
    /\ Loaded
    /\ GenIdle
    /\ MainIdle
    /\ server_total = 0
    /\ main_pc = "loop"
    /\ limit \in Limits
    /\ vcall = NoCall

NextOK == Pull \/ GenRequest \/ GenReturn \/ Respond \/ GenYield \/ GenPageDone \/ MainStep

Next == NextOK \/ RespondError

Spec == Init /\ [][Next]_vars

\* The same, every request succeeding; the program and the server run on.
FairSpec == Init /\ [][NextOK]_vars /\ WF_vars(NextOK)

\* main against an honest server.
InitHonest ==
    /\ Loaded
    /\ GenIdle
    /\ MainIdle
    /\ server_total \in 0..MaxTotal
    /\ main_pc = "loop"
    /\ limit \in Limits
    /\ vcall = NoCall

NextHonest ==
    Pull \/ GenRequest \/ GenReturn \/ RespondHonest \/ GenYield \/ GenPageDone \/ MainStep

SpecHonest == InitHonest /\ [][NextHonest]_vars

\* is_valid_datset on its own, on every record.
InitValid ==
    /\ Fresh
    /\ GenIdle
    /\ MainIdle
    /\ server_total = 0
    /\ main_pc = "idle"
    /\ limit = NoneVal
    /\ \E p \in AllPlatforms : vcall = [platform |-> p, result |-> "none"]

SpecValid == InitValid /\ [][Validate]_vars

\* A CPIData object on its own: loads and queries, no pipeline.
InitCPI == Fresh /\ PipelineIdle

NextCPI == LoadStart \/ LoadNext \/ LoadEOF \/ Query

SpecCPI == InitCPI /\ [][NextCPI]_vars

\* ---------------------------------------------------------------- claims

ObservedYears == {observed[i].year : i \in 1..Len(observed)}
SumOf(y) ==
    SumSeq([i \in 1..Len(observed) |->
               IF observed[i].year = y THEN observed[i].cpi ELSE 0])
CountOf(y) == Cardinality({i \in 1..Len(observed) : observed[i].year = y})
MinYear == CHOOSE y \in ObservedYears : \A z \in ObservedYears : y <= z
MaxYear == CHOOSE y \in ObservedYears : \A z \in ObservedYears : y >= z

\* C1: when load_from_file has returned, every year that occurs in a data
\* line of the source has an entry in year_cpi, equal to the mean of all the
\* CPI values of that year's lines (wherever they stand in the source, and
\* whatever the index held before the call).
C1_MeanOfAllValues ==
    load_pc = "done" =>
        \A y \in ObservedYears :
            /\ y \in DOMAIN year_cpi
            /\ MeanEq(year_cpi[y], <<SumOf(y), CountOf(y)>>)

\* C2: at every point of an ingestion that has read a data line, first_year
\* is the least and last_year the greatest year read so far.
C2_FirstLastAreMinMax ==
    (load_pc \in {"loading", "done"} /\ observed # <<>>) =>
        /\ first_year = Some(MinYear)
        /\ last_year = Some(MaxYear)

\* C3: on an index built by a load that succeeded on a source with a data
\* line, get_adjusted_price returns a number, for every from-year and every
\* to-year, given or omitted: both years it looks up are keys of year_cpi.
C3_NoUnknownYear ==
    (load_pc = "done" /\ observed # <<>> /\ adjusted.kind # "none") =>
        /\ adjusted.kind = "value"
        /\ adjusted.from \in DOMAIN year_cpi
        /\ adjusted.to \in DOMAIN year_cpi

\* C4: against a server that holds T records, each request carries as offset
\* the number of records the earlier pages delivered, starting at 0 and
\* growing from request to request; when the sequence ends T items were
\* yielded, and with full pages ceil(T / PageSize) requests were sent (one
\* when T = 0).
RequestSent == gen_pc = "while" /\ gen_pc' = "awaiting"
FullPages == offset = Some((num_requests - 1) * PageSize)
PagesNeeded(t) == IF t = 0 THEN 1 ELSE (t + PageSize - 1) \div PageSize
C4_Pagination ==
    /\ [](gen_pc = "ended" =>
            /\ gen_counter = server_total
            /\ received = server_total
            /\ FullPages => num_requests = PagesNeeded(server_total))
    /\ [][RequestSent =>
            /\ offset' = Some(received)
            /\ offset = NoneVal => Val(offset') = 0
            /\ offset # NoneVal => Val(offset') > Val(offset)]_vars

\* C4's case: T = 2 * PageSize + 1 records in full pages, three requests, the
\* last at offset 2 * PageSize, T items yielded.
C4_Witness ==
    /\ gen_pc = "ended"
    /\ server_total = 2 * PageSize + 1
    /\ num_requests = 3
    /\ offset = Some(2 * PageSize)
    /\ gen_counter = server_total

HasAll(p) == \A k \in RequiredFields : k \in DOMAIN p /\ Truthy(p[k])

\* C5: is_valid_datset returns True when all four fields are present and
\* truthy and False otherwise; it returns a boolean for every record.
C5_ValidIffAllFour ==
    vcall.result \notin {"idle", "none"} =>
        vcall.result = IF HasAll(vcall.platform) THEN "True" ELSE "False"

LeadingYear(p) == PyInt(PySplit(p.release_date).items[1]).val

\* C6: every valid record main has been given is in the output, with year
\* the integer of the leading segment of its release_date and adjusted_price
\* the result of get_adjusted_price(original_price, year); no other record is.
C6_ValidRecordsEnriched ==
    main_pc \in {"loop", "waiting", "done", "crashed"} =>
        /\ Len(platforms) = valid_seen
        /\ \A i \in 1..Len(platforms) :
             /\ platforms[i].year = LeadingYear(platforms[i])
             /\ platforms[i].adjusted_price =
                    get_adjusted_price(Index, platforms[i].original_price.val,
                                       platforms[i].year, NoneVal).val

\* C7: between two records and at the end, the output holds min(limit, valid
\* records delivered) records when a limit is given, never more than limit,
\* and every valid record delivered when none is given.
C7_LimitRespected ==
    main_pc \in {"loop", "done", "crashed"} =>
        /\ limit # NoneVal => Len(platforms) <= Val(limit)
        /\ Len(platforms) = IF limit = NoneVal THEN valid_seen
                            ELSE Min(Val(limit), valid_seen)

\* C8: when every request succeeds, whatever the pages hold, the sequence
\* ends unless its consumer stops pulling first.
C8_SequenceEnds == <>(gen_pc = "ended" \/ main_pc \in {"done", "crashed"})

\* C9: a page is requested only while main waits for its next item, every
\* item of the earlier pages having been pulled; once main's loop has ended
\* the generator does not run, so no request follows.
GenRunning == gen_pc \in {"while", "for", "awaiting"}
C10_NoPartialIndex == load_pc = "failed" => Index = pre

====
